---- MODULE Spec2Model ----
(***************************************************************************)
(* Model of the text corrector backend (backend/app): the US/UK spelling   *)
(* table, the tokenizer and URL masks of TextCorrector._convert_variant,   *)
(* the casing rule _match_case, the reverse-order edit loop of             *)
(* _fix_grammar, the request validation of CorrectionRequest and the lazy  *)
(* module-level singleton get_corrector.                                   *)
(*                                                                         *)
(* A Python str is modelled as a sequence of characters; a character is a  *)
(* one-character string, except the non-ASCII characters, which are named  *)
(* by their code point ("U+00E9").  Offsets are 0-based as in Python;      *)
(* positions inside the operators are 1-based as in Sequences.             *)
(***************************************************************************)
EXTENDS Integers, Sequences, FiniteSets, TLC

\* ------------------------------------------------------------------------
\* Characters and the str methods the code uses
\* ------------------------------------------------------------------------

Lower26 ==
  <<"a","b","c","d","e","f","g","h","i","j","k","l","m",
    "n","o","p","q","r","s","t","u","v","w","x","y","z">>

Upper26 ==
  <<"A","B","C","D","E","F","G","H","I","J","K","L","M",
    "N","O","P","Q","R","S","T","U","V","W","X","Y","Z">>

Range(f) == { f[i] : i \in DOMAIN f }

AsciiLower == Range(Lower26)

AsciiUpper == Range(Upper26)

\* The class [A-Za-z] of _TOKEN_RE and _URL_RE.
AsciiLetters == AsciiLower \cup AsciiUpper

Digits == {"0","1","2","3","4","5","6","7","8","9"}

\* Letters outside ASCII: e-acute in both cases (str.isalpha is true of them).
NonAsciiLower == {"U+00E9"}

NonAsciiUpper == {"U+00C9"}

\* Unicode whitespace, as \s and str.strip see it (U+00A0 is a no-break space).
Whitespace == {" ", "\t", "\n", "U+00A0"}

ToLowerMap ==
  [c \in AsciiUpper \cup NonAsciiUpper |->
     IF c = "U+00C9" THEN "U+00E9"
     ELSE Lower26[CHOOSE i \in 1..26 : Upper26[i] = c]]

ToUpperMap ==
  [c \in AsciiLower \cup NonAsciiLower |->
     IF c = "U+00E9" THEN "U+00C9"
     ELSE Upper26[CHOOSE i \in 1..26 : Lower26[i] = c]]

CharIsUpper(c) == c \in DOMAIN ToLowerMap

CharIsLower(c) == c \in DOMAIN ToUpperMap

CharLower(c) == IF CharIsUpper(c) THEN ToLowerMap[c] ELSE c

CharUpper(c) == IF CharIsLower(c) THEN ToUpperMap[c] ELSE c

\* str.lower()
StrLower(s) == [i \in 1..Len(s) |-> CharLower(s[i])]

\* str.upper()
StrUpper(s) == [i \in 1..Len(s) |-> CharUpper(s[i])]

\* str.isalpha(): non-empty and every character a letter.
IsAlpha(s) ==
  /\ Len(s) > 0
  /\ \A i \in 1..Len(s) : CharIsUpper(s[i]) \/ CharIsLower(s[i])

\* str.isupper(): at least one cased character and no lowercase one.
IsUpper(s) ==
  /\ \E i \in 1..Len(s) : CharIsUpper(s[i])
  /\ \A i \in 1..Len(s) : ~CharIsLower(s[i])

\* str.strip(): leading and trailing whitespace removed.
StrStrip(s) ==
  LET keep == { i \in 1..Len(s) : s[i] \notin Whitespace }
  IN  IF keep = {} THEN <<>>
      ELSE LET lo == CHOOSE i \in keep : \A j \in keep : i <= j
               hi == CHOOSE i \in keep : \A j \in keep : i >= j
           IN  SubSeq(s, lo, hi)

\* "".join(parts)
RECURSIVE Join(_)
Join(parts) ==
  IF parts = <<>> THEN <<>> ELSE Head(parts) \o Join(Tail(parts))

\* ------------------------------------------------------------------------
\* Spelling variant dictionaries
\* ------------------------------------------------------------------------

\* The dict literal _US_TO_UK, as its (key, value) items in source order.
US_TO_UK_ITEMS ==
  <<
    << <<"c","o","l","o","r">>,
       <<"c","o","l","o","u","r">> >>,
    << <<"c","o","l","o","r","s">>,
       <<"c","o","l","o","u","r","s">> >>,
    << <<"c","o","l","o","r","e","d">>,
       <<"c","o","l","o","u","r","e","d">> >>,
    << <<"c","o","l","o","r","i","n","g">>,
       <<"c","o","l","o","u","r","i","n","g">> >>,
    << <<"c","o","l","o","r","f","u","l">>,
       <<"c","o","l","o","u","r","f","u","l">> >>,
    << <<"f","a","v","o","r">>,
       <<"f","a","v","o","u","r">> >>,
    << <<"f","a","v","o","r","s">>,
       <<"f","a","v","o","u","r","s">> >>,
    << <<"f","a","v","o","r","i","t","e">>,
       <<"f","a","v","o","u","r","i","t","e">> >>,
    << <<"f","a","v","o","r","i","t","e","s">>,
       <<"f","a","v","o","u","r","i","t","e","s">> >>,
    << <<"f","l","a","v","o","r">>,
       <<"f","l","a","v","o","u","r">> >>,
    << <<"f","l","a","v","o","r","s">>,
       <<"f","l","a","v","o","u","r","s">> >>,
    << <<"h","o","n","o","r">>,
       <<"h","o","n","o","u","r">> >>,
    << <<"h","o","n","o","r","s">>,
       <<"h","o","n","o","u","r","s">> >>,
    << <<"h","o","n","o","r","e","d">>,
       <<"h","o","n","o","u","r","e","d">> >>,
    << <<"h","u","m","o","r">>,
       <<"h","u","m","o","u","r">> >>,
    << <<"h","u","m","o","r","s">>,
       <<"h","u","m","o","u","r","s">> >>,
    << <<"l","a","b","o","r">>,
       <<"l","a","b","o","u","r">> >>,
    << <<"l","a","b","o","r","s">>,
       <<"l","a","b","o","u","r","s">> >>,
    << <<"n","e","i","g","h","b","o","r">>,
       <<"n","e","i","g","h","b","o","u","r">> >>,
    << <<"n","e","i","g","h","b","o","r","s">>,
       <<"n","e","i","g","h","b","o","u","r","s">> >>,
    << <<"n","e","i","g","h","b","o","r","h","o","o","d">>,
       <<"n","e","i","g","h","b","o","u","r","h","o","o","d">> >>,
    << <<"r","u","m","o","r">>,
       <<"r","u","m","o","u","r">> >>,
    << <<"r","u","m","o","r","s">>,
       <<"r","u","m","o","u","r","s">> >>,
    << <<"s","a","v","i","o","r">>,
       <<"s","a","v","i","o","u","r">> >>,
    << <<"v","a","l","o","r">>,
       <<"v","a","l","o","u","r">> >>,
    << <<"v","i","g","o","r">>,
       <<"v","i","g","o","u","r">> >>,
    << <<"b","e","h","a","v","i","o","r">>,
       <<"b","e","h","a","v","i","o","u","r">> >>,
    << <<"b","e","h","a","v","i","o","r","s">>,
       <<"b","e","h","a","v","i","o","u","r","s">> >>,
    << <<"e","n","d","e","a","v","o","r">>,
       <<"e","n","d","e","a","v","o","u","r">> >>,
    << <<"e","n","d","e","a","v","o","r","s">>,
       <<"e","n","d","e","a","v","o","u","r","s">> >>,
    << <<"o","r","g","a","n","i","z","e">>,
       <<"o","r","g","a","n","i","s","e">> >>,
    << <<"o","r","g","a","n","i","z","e","s">>,
       <<"o","r","g","a","n","i","s","e","s">> >>,
    << <<"o","r","g","a","n","i","z","e","d">>,
       <<"o","r","g","a","n","i","s","e","d">> >>,
    << <<"o","r","g","a","n","i","z","i","n","g">>,
       <<"o","r","g","a","n","i","s","i","n","g">> >>,
    << <<"o","r","g","a","n","i","z","a","t","i","o","n">>,
       <<"o","r","g","a","n","i","s","a","t","i","o","n">> >>,
    << <<"o","r","g","a","n","i","z","a","t","i","o","n","s">>,
       <<"o","r","g","a","n","i","s","a","t","i","o","n","s">> >>,
    << <<"r","e","c","o","g","n","i","z","e">>,
       <<"r","e","c","o","g","n","i","s","e">> >>,
    << <<"r","e","c","o","g","n","i","z","e","s">>,
       <<"r","e","c","o","g","n","i","s","e","s">> >>,
    << <<"r","e","c","o","g","n","i","z","e","d">>,
       <<"r","e","c","o","g","n","i","s","e","d">> >>,
    << <<"r","e","c","o","g","n","i","z","i","n","g">>,
       <<"r","e","c","o","g","n","i","s","i","n","g">> >>,
    << <<"r","e","a","l","i","z","e">>,
       <<"r","e","a","l","i","s","e">> >>,
    << <<"r","e","a","l","i","z","e","s">>,
       <<"r","e","a","l","i","s","e","s">> >>,
    << <<"r","e","a","l","i","z","e","d">>,
       <<"r","e","a","l","i","s","e","d">> >>,
    << <<"r","e","a","l","i","z","i","n","g">>,
       <<"r","e","a","l","i","s","i","n","g">> >>,
    << <<"a","p","o","l","o","g","i","z","e">>,
       <<"a","p","o","l","o","g","i","s","e">> >>,
    << <<"a","p","o","l","o","g","i","z","e","s">>,
       <<"a","p","o","l","o","g","i","s","e","s">> >>,
    << <<"a","p","o","l","o","g","i","z","e","d">>,
       <<"a","p","o","l","o","g","i","s","e","d">> >>,
    << <<"a","p","o","l","o","g","i","z","i","n","g">>,
       <<"a","p","o","l","o","g","i","s","i","n","g">> >>,
    << <<"a","u","t","h","o","r","i","z","e">>,
       <<"a","u","t","h","o","r","i","s","e">> >>,
    << <<"a","u","t","h","o","r","i","z","e","d">>,
       <<"a","u","t","h","o","r","i","s","e","d">> >>,
    << <<"c","a","p","i","t","a","l","i","z","e">>,
       <<"c","a","p","i","t","a","l","i","s","e">> >>,
    << <<"c","a","p","i","t","a","l","i","z","e","d">>,
       <<"c","a","p","i","t","a","l","i","s","e","d">> >>,
    << <<"c","a","t","e","g","o","r","i","z","e">>,
       <<"c","a","t","e","g","o","r","i","s","e">> >>,
    << <<"c","a","t","e","g","o","r","i","z","e","d">>,
       <<"c","a","t","e","g","o","r","i","s","e","d">> >>,
    << <<"c","e","n","t","r","a","l","i","z","e">>,
       <<"c","e","n","t","r","a","l","i","s","e">> >>,
    << <<"c","e","n","t","r","a","l","i","z","e","d">>,
       <<"c","e","n","t","r","a","l","i","s","e","d">> >>,
    << <<"c","h","a","r","a","c","t","e","r","i","z","e">>,
       <<"c","h","a","r","a","c","t","e","r","i","s","e">> >>,
    << <<"c","h","a","r","a","c","t","e","r","i","z","e","d">>,
       <<"c","h","a","r","a","c","t","e","r","i","s","e","d">> >>,
    << <<"c","u","s","t","o","m","i","z","e">>,
       <<"c","u","s","t","o","m","i","s","e">> >>,
    << <<"c","u","s","t","o","m","i","z","e","d">>,
       <<"c","u","s","t","o","m","i","s","e","d">> >>,
    << <<"e","m","p","h","a","s","i","z","e">>,
       <<"e","m","p","h","a","s","i","s","e">> >>,
    << <<"e","m","p","h","a","s","i","z","e","d">>,
       <<"e","m","p","h","a","s","i","s","e","d">> >>,
    << <<"f","i","n","a","l","i","z","e">>,
       <<"f","i","n","a","l","i","s","e">> >>,
    << <<"f","i","n","a","l","i","z","e","d">>,
       <<"f","i","n","a","l","i","s","e","d">> >>,
    << <<"g","e","n","e","r","a","l","i","z","e">>,
       <<"g","e","n","e","r","a","l","i","s","e">> >>,
    << <<"g","e","n","e","r","a","l","i","z","e","d">>,
       <<"g","e","n","e","r","a","l","i","s","e","d">> >>,
    << <<"i","n","i","t","i","a","l","i","z","e">>,
       <<"i","n","i","t","i","a","l","i","s","e">> >>,
    << <<"i","n","i","t","i","a","l","i","z","e","d">>,
       <<"i","n","i","t","i","a","l","i","s","e","d">> >>,
    << <<"m","a","x","i","m","i","z","e">>,
       <<"m","a","x","i","m","i","s","e">> >>,
    << <<"m","i","n","i","m","i","z","e","d">>,
       <<"m","i","n","i","m","i","s","e","d">> >>,
    << <<"m","i","n","i","m","i","z","e">>,
       <<"m","i","n","i","m","i","s","e">> >>,
    << <<"m","o","d","e","r","n","i","z","e">>,
       <<"m","o","d","e","r","n","i","s","e">> >>,
    << <<"n","o","r","m","a","l","i","z","e">>,
       <<"n","o","r","m","a","l","i","s","e">> >>,
    << <<"n","o","r","m","a","l","i","z","e","d">>,
       <<"n","o","r","m","a","l","i","s","e","d">> >>,
    << <<"o","p","t","i","m","i","z","e">>,
       <<"o","p","t","i","m","i","s","e">> >>,
    << <<"o","p","t","i","m","i","z","e","d">>,
       <<"o","p","t","i","m","i","s","e","d">> >>,
    << <<"p","r","i","o","r","i","t","i","z","e">>,
       <<"p","r","i","o","r","i","t","i","s","e">> >>,
    << <<"p","r","i","o","r","i","t","i","z","e","d">>,
       <<"p","r","i","o","r","i","t","i","s","e","d">> >>,
    << <<"s","p","e","c","i","a","l","i","z","e">>,
       <<"s","p","e","c","i","a","l","i","s","e">> >>,
    << <<"s","p","e","c","i","a","l","i","z","e","d">>,
       <<"s","p","e","c","i","a","l","i","s","e","d">> >>,
    << <<"s","t","a","n","d","a","r","d","i","z","e">>,
       <<"s","t","a","n","d","a","r","d","i","s","e">> >>,
    << <<"s","t","a","n","d","a","r","d","i","z","e","d">>,
       <<"s","t","a","n","d","a","r","d","i","s","e","d">> >>,
    << <<"s","u","m","m","a","r","i","z","e">>,
       <<"s","u","m","m","a","r","i","s","e">> >>,
    << <<"s","u","m","m","a","r","i","z","e","d">>,
       <<"s","u","m","m","a","r","i","s","e","d">> >>,
    << <<"s","y","m","b","o","l","i","z","e">>,
       <<"s","y","m","b","o","l","i","s","e">> >>,
    << <<"s","y","m","b","o","l","i","z","e","d">>,
       <<"s","y","m","b","o","l","i","s","e","d">> >>,
    << <<"u","t","i","l","i","z","e">>,
       <<"u","t","i","l","i","s","e">> >>,
    << <<"u","t","i","l","i","z","e","d">>,
       <<"u","t","i","l","i","s","e","d">> >>,
    << <<"v","i","s","u","a","l","i","z","e">>,
       <<"v","i","s","u","a","l","i","s","e">> >>,
    << <<"v","i","s","u","a","l","i","z","e","d">>,
       <<"v","i","s","u","a","l","i","s","e","d">> >>,
    << <<"c","e","n","t","e","r">>,
       <<"c","e","n","t","r","e">> >>,
    << <<"c","e","n","t","e","r","s">>,
       <<"c","e","n","t","r","e","s">> >>,
    << <<"c","e","n","t","e","r","e","d">>,
       <<"c","e","n","t","r","e","d">> >>,
    << <<"f","i","b","e","r">>,
       <<"f","i","b","r","e">> >>,
    << <<"f","i","b","e","r","s">>,
       <<"f","i","b","r","e","s">> >>,
    << <<"l","i","t","e","r">>,
       <<"l","i","t","r","e">> >>,
    << <<"l","i","t","e","r","s">>,
       <<"l","i","t","r","e","s">> >>,
    << <<"m","e","t","e","r">>,
       <<"m","e","t","r","e">> >>,
    << <<"m","e","t","e","r","s">>,
       <<"m","e","t","r","e","s">> >>,
    << <<"t","h","e","a","t","e","r">>,
       <<"t","h","e","a","t","r","e">> >>,
    << <<"t","h","e","a","t","e","r","s">>,
       <<"t","h","e","a","t","r","e","s">> >>,
    << <<"a","n","a","l","o","g">>,
       <<"a","n","a","l","o","g","u","e">> >>,
    << <<"c","a","t","a","l","o","g">>,
       <<"c","a","t","a","l","o","g","u","e">> >>,
    << <<"d","i","a","l","o","g">>,
       <<"d","i","a","l","o","g","u","e">> >>,
    << <<"m","o","n","o","l","o","g">>,
       <<"m","o","n","o","l","o","g","u","e">> >>,
    << <<"d","e","f","e","n","s","e">>,
       <<"d","e","f","e","n","c","e">> >>,
    << <<"o","f","f","e","n","s","e">>,
       <<"o","f","f","e","n","c","e">> >>,
    << <<"l","i","c","e","n","s","e">>,
       <<"l","i","c","e","n","c","e">> >>,
    << <<"p","r","e","t","e","n","s","e">>,
       <<"p","r","e","t","e","n","c","e">> >>,
    << <<"t","r","a","v","e","l","i","n","g">>,
       <<"t","r","a","v","e","l","l","i","n","g">> >>,
    << <<"t","r","a","v","e","l","e","d">>,
       <<"t","r","a","v","e","l","l","e","d">> >>,
    << <<"t","r","a","v","e","l","e","r">>,
       <<"t","r","a","v","e","l","l","e","r">> >>,
    << <<"t","r","a","v","e","l","e","r","s">>,
       <<"t","r","a","v","e","l","l","e","r","s">> >>,
    << <<"c","a","n","c","e","l","e","d">>,
       <<"c","a","n","c","e","l","l","e","d">> >>,
    << <<"c","a","n","c","e","l","i","n","g">>,
       <<"c","a","n","c","e","l","l","i","n","g">> >>,
    << <<"c","o","u","n","s","e","l","o","r">>,
       <<"c","o","u","n","s","e","l","l","o","r">> >>,
    << <<"c","o","u","n","s","e","l","o","r","s">>,
       <<"c","o","u","n","s","e","l","l","o","r","s">> >>,
    << <<"e","n","r","o","l","l","m","e","n","t">>,
       <<"e","n","r","o","l","m","e","n","t">> >>,
    << <<"f","u","l","f","i","l","l","m","e","n","t">>,
       <<"f","u","l","f","i","l","m","e","n","t">> >>,
    << <<"m","o","d","e","l","i","n","g">>,
       <<"m","o","d","e","l","l","i","n","g">> >>,
    << <<"m","o","d","e","l","e","d">>,
       <<"m","o","d","e","l","l","e","d">> >>,
    << <<"s","i","g","n","a","l","i","n","g">>,
       <<"s","i","g","n","a","l","l","i","n","g">> >>,
    << <<"s","i","g","n","a","l","e","d">>,
       <<"s","i","g","n","a","l","l","e","d">> >>,
    << <<"p","r","o","g","r","a","m">>,
       <<"p","r","o","g","r","a","m","m","e">> >>,
    << <<"p","r","o","g","r","a","m","s">>,
       <<"p","r","o","g","r","a","m","m","e","s">> >>,
    << <<"p","r","o","g","r","a","m","m","e","d">>,
       <<"p","r","o","g","r","a","m","m","e","d">> >>,
    << <<"g","r","a","y">>,
       <<"g","r","e","y">> >>,
    << <<"g","r","a","y","s">>,
       <<"g","r","e","y","s">> >>,
    << <<"t","i","r","e">>,
       <<"t","y","r","e">> >>,
    << <<"t","i","r","e","s">>,
       <<"t","y","r","e","s">> >>,
    << <<"a","i","r","p","l","a","n","e">>,
       <<"a","e","r","o","p","l","a","n","e">> >>,
    << <<"a","i","r","p","l","a","n","e","s">>,
       <<"a","e","r","o","p","l","a","n","e","s">> >>,
    << <<"a","r","t","i","f","a","c","t">>,
       <<"a","r","t","e","f","a","c","t">> >>,
    << <<"a","r","t","i","f","a","c","t","s">>,
       <<"a","r","t","e","f","a","c","t","s">> >>,
    << <<"c","h","e","c","k">>,
       <<"c","h","e","q","u","e">> >>,
    << <<"c","h","e","c","k","s">>,
       <<"c","h","e","q","u","e","s">> >>,
    << <<"c","u","r","b">>,
       <<"k","e","r","b">> >>,
    << <<"c","u","r","b","s">>,
       <<"k","e","r","b","s">> >>,
    << <<"d","r","a","f","t">>,
       <<"d","r","a","u","g","h","t">> >>,
    << <<"d","r","a","f","t","s">>,
       <<"d","r","a","u","g","h","t","s">> >>,
    << <<"j","e","w","e","l","r","y">>,
       <<"j","e","w","e","l","l","e","r","y">> >>,
    << <<"p","a","j","a","m","a","s">>,
       <<"p","y","j","a","m","a","s">> >>,
    << <<"p","l","o","w">>,
       <<"p","l","o","u","g","h">> >>,
    << <<"p","l","o","w","s">>,
       <<"p","l","o","u","g","h","s">> >>,
    << <<"s","k","e","p","t","i","c">>,
       <<"s","c","e","p","t","i","c">> >>,
    << <<"s","k","e","p","t","i","c","a","l">>,
       <<"s","c","e","p","t","i","c","a","l">> >>,
    << <<"s","k","e","p","t","i","c","i","s","m">>,
       <<"s","c","e","p","t","i","c","i","s","m">> >>
  >>

\* A dict built from items in order: a later item replaces an earlier one
\* with the same key.
DictOf(items) ==
  [k \in { items[i][1] : i \in DOMAIN items } |->
     items[CHOOSE i \in DOMAIN items :
             /\ items[i][1] = k
             /\ \A j \in DOMAIN items : items[j][1] = k => j <= i][2]]

\* The items as they are: a comprehension that does not swap key and value.
ReversedItemsUnswapped(items) == items

\* The items of {v: k for k, v in d.items()}.
ReversedItems(items) == [i \in DOMAIN items |-> <<items[i][2], items[i][1]>>]

US_TO_UK == DictOf(US_TO_UK_ITEMS)

UK_TO_US == DictOf(ReversedItems(US_TO_UK_ITEMS))

US_WORDS == DOMAIN US_TO_UK

UK_WORDS == DOMAIN UK_TO_US

\* ------------------------------------------------------------------------
\* _TOKEN_RE and _URL_RE
\* ------------------------------------------------------------------------

\* End (exclusive) of the longest run of characters of S starting at p.
ClassRunEnd(t, p, S) ==
  CHOOSE q \in p..(Len(t) + 1) :
    /\ \A j \in p..(q - 1) : t[j] \in S
    /\ q = Len(t) + 1 \/ t[q] \notin S

\* End (exclusive) of the longest run of characters outside S starting at p.
NonClassRunEnd(t, p, S) ==
  CHOOSE q \in p..(Len(t) + 1) :
    /\ \A j \in p..(q - 1) : t[j] \notin S
    /\ q = Len(t) + 1 \/ t[q] \in S

\* _TOKEN_RE.finditer(text) from position p on: maximal runs of [A-Za-z]
\* alternating with maximal runs of everything else, each with its start.
RECURSIVE TokensFrom(_, _)
TokensFrom(t, p) ==
  IF p > Len(t) THEN <<>>
  ELSE LET q == IF t[p] \in AsciiLetters
                THEN ClassRunEnd(t, p, AsciiLetters)
                ELSE NonClassRunEnd(t, p, AsciiLetters)
       IN  <<[start |-> p - 1, token |-> SubSeq(t, p, q - 1)]>>
             \o TokensFrom(t, q)

TokenFinditer(t) == TokensFrom(t, 1)

StartsWith(t, p, lit) ==
  /\ p + Len(lit) - 1 <= Len(t)
  /\ SubSeq(t, p, p + Len(lit) - 1) = lit

\* [^\s]+ at p: 0 when no character matches, else the end (exclusive).
NonSpaceRunEnd(t, p) ==
  IF p <= Len(t) /\ t[p] \notin Whitespace
  THEN NonClassRunEnd(t, p, Whitespace) ELSE 0

\* https?://[^\s]+ at p
HttpAltEnd(t, p) ==
  IF StartsWith(t, p, <<"h","t","t","p","s",":","/","/">>)
  THEN NonSpaceRunEnd(t, p + 8)
  ELSE IF StartsWith(t, p, <<"h","t","t","p",":","/","/">>)
  THEN NonSpaceRunEnd(t, p + 7)
  ELSE 0

\* www\.[^\s]+ at p
WwwAltEnd(t, p) ==
  IF StartsWith(t, p, <<"w","w","w",".">>)
  THEN NonSpaceRunEnd(t, p + 4) ELSE 0

EmailLocalClass == AsciiLetters \cup Digits \cup {".", "_", "%", "+", "-"}

EmailDomainClass == AsciiLetters \cup Digits \cup {".", "-"}

\* [a-zA-Z0-9._%+-]+@[a-zA-Z0-9.-]+\.[a-zA-Z]{2,} at p.  The local part is
\* the whole run before "@"; the greedy domain backtracks to the last "."
\* of its run that at least two letters follow; the letters run to their end.
EmailAltEnd(t, p) ==
  IF t[p] \notin EmailLocalClass THEN 0
  ELSE LET at == ClassRunEnd(t, p, EmailLocalClass)
       IN  IF at > Len(t) \/ t[at] # "@" THEN 0
           ELSE LET dEnd == ClassRunEnd(t, at + 1, EmailDomainClass)
                    dots == { k \in (at + 2)..(dEnd - 1) :
                                /\ t[k] = "."
                                /\ k + 2 <= Len(t)
                                /\ t[k + 1] \in AsciiLetters
                                /\ t[k + 2] \in AsciiLetters }
                IN  IF dots = {} THEN 0
                    ELSE LET k == CHOOSE d \in dots : \A e \in dots : e <= d
                         IN  ClassRunEnd(t, k + 1, AsciiLetters)

\* _URL_RE.match at p: the first alternative that matches, 0 when none does.
UrlMatchEnd(t, p) ==
  IF HttpAltEnd(t, p) # 0 THEN HttpAltEnd(t, p)
  ELSE IF WwwAltEnd(t, p) # 0 THEN WwwAltEnd(t, p)
  ELSE EmailAltEnd(t, p)

\* _URL_RE.finditer(text) from p on, as 0-based half-open (start, end) spans.
RECURSIVE UrlSpansFrom(_, _)
UrlSpansFrom(t, p) ==
  IF p > Len(t) THEN <<>>
  ELSE LET e == UrlMatchEnd(t, p)
       IN  IF e = 0 THEN UrlSpansFrom(t, p + 1)
           ELSE <<<<p - 1, e - 1>>>> \o UrlSpansFrom(t, e)

UrlFinditer(t) == UrlSpansFrom(t, 1)

\* ------------------------------------------------------------------------
\* TextCorrector._match_case and TextCorrector._convert_variant
\* ------------------------------------------------------------------------

\* The casing rule with its two tests in the other order: the first
\* character decides before the whole token is looked at.
MatchCaseFirstLetterOnly(original, replacement) ==
  IF CharIsUpper(original[1])
  THEN <<CharUpper(replacement[1])>> \o Tail(replacement)
  ELSE IF IsUpper(original) THEN StrUpper(replacement)
  ELSE replacement

MatchCase(original, replacement) ==
  IF IsUpper(original) THEN StrUpper(replacement)
  ELSE IF CharIsUpper(original[1])
  THEN <<CharUpper(replacement[1])>> \o Tail(replacement)
  ELSE replacement

Change(type, original, replacement) ==
  [type |-> type, original |-> original, replacement |-> replacement]

\* The span test with the start of the span excluded: s < start < e.
InUrlStrictStart(start, spans) ==
  \E i \in DOMAIN spans : spans[i][1] < start /\ start < spans[i][2]

\* any(s <= start < e for s, e in url_spans)
InUrl(start, spans) ==
  \E i \in DOMAIN spans : spans[i][1] <= start /\ start < spans[i][2]

VariantMapping(v) == IF v = "uk" THEN US_TO_UK ELSE UK_TO_US

\* One iteration of the token loop: the part appended to result_parts and
\* the changes appended (none or one).
ConvertToken(tok, spans, v) ==
  LET mapping == VariantMapping(v)
      token == tok.token
      lower == StrLower(token)
  IN  IF InUrl(tok.start, spans) \/ ~IsAlpha(token)
      THEN [part |-> token, changes |-> <<>>]
      ELSE IF lower \in DOMAIN mapping
      THEN LET replacement == MatchCase(token, mapping[lower])
           IN  IF replacement # token
               THEN [part |-> replacement,
                     changes |-> <<Change("spelling", token, replacement)>>]
               ELSE [part |-> token, changes |-> <<>>]
      ELSE [part |-> token, changes |-> <<>>]

\* The token loop with each change put in front of the list (insert(0, ..)).
RECURSIVE ConvertLoopPrepending(_, _, _, _, _, _)
ConvertLoopPrepending(toks, i, spans, v, parts, chgs) ==
  IF i > Len(toks) THEN [result_parts |-> parts, changes |-> chgs]
  ELSE LET r == ConvertToken(toks[i], spans, v)
       IN  ConvertLoopPrepending(toks, i + 1, spans, v,
                                 Append(parts, r.part), r.changes \o chgs)

\* The token loop from token i on, given what was accumulated so far.
RECURSIVE ConvertLoop(_, _, _, _, _, _)
ConvertLoop(toks, i, spans, v, parts, chgs) ==
  IF i > Len(toks) THEN [result_parts |-> parts, changes |-> chgs]
  ELSE LET r == ConvertToken(toks[i], spans, v)
       IN  ConvertLoop(toks, i + 1, spans, v,
                       Append(parts, r.part), chgs \o r.changes)

\* _convert_variant(text, variant)
ConvertVariant(t, v) ==
  LET spans == UrlFinditer(t)
      toks == TokenFinditer(t)
      r == ConvertLoop(toks, 1, spans, v, <<>>, <<>>)
  IN  [text |-> Join(r.result_parts), changes |-> r.changes,
       url_spans |-> spans, tokens |-> toks, result_parts |-> r.result_parts]

\* ------------------------------------------------------------------------
\* TextCorrector._fix_grammar
\* ------------------------------------------------------------------------

\* s[a:b] for 0 <= a, 0 <= b (Python clamps both ends to the string).
PySlice(s, a, b) == SubSeq(s, a + 1, IF b < Len(s) THEN b ELSE Len(s))

\* list.reverse()
Reverse(s) == [i \in 1..Len(s) |-> s[Len(s) + 1 - i]]

\* _classify_match.  ruleId and category are modelled by the set of the
\* keywords tested here that occur in their uppercased text.
ClassifyMatch(m) ==
  IF "PUNCT" \in m.ruleId \/ "COMMA" \in m.ruleId \/ "PUNCT" \in m.category
  THEN "punctuation"
  ELSE IF "SPELL" \in m.ruleId \/ "TYPO" \in m.ruleId \/ "SPELL" \in m.category
  THEN "spelling"
  ELSE "grammar"

\* for match in reversed(matches), from match i down to the first.
RECURSIVE FixLoop(_, _, _, _)
FixLoop(ms, i, corr, chgs) ==
  IF i = 0 THEN [corrected |-> corr, changes |-> chgs]
  ELSE LET m == ms[i]
       IN  IF m.replacements = <<>> THEN FixLoop(ms, i - 1, corr, chgs)
           ELSE LET replacement == m.replacements[1]
                    original == PySlice(corr, m.offset, m.offset + m.errorLength)
                IN  IF original = replacement
                    THEN FixLoop(ms, i - 1, corr, chgs)
                    ELSE FixLoop(ms, i - 1,
                                 PySlice(corr, 0, m.offset) \o replacement
                                   \o PySlice(corr, m.offset + m.errorLength, Len(corr)),
                                 Append(chgs,
                                        Change(ClassifyMatch(m), original, replacement)))

\* The loop run over the matches first to last: the edits of a loop that
\* does not iterate in reverse.
RECURSIVE FixLoopForward(_, _, _, _)
FixLoopForward(ms, i, corr, chgs) ==
  IF i > Len(ms) THEN [corrected |-> corr, changes |-> Reverse(chgs)]
  ELSE LET m == ms[i]
       IN  IF m.replacements = <<>> THEN FixLoopForward(ms, i + 1, corr, chgs)
           ELSE LET replacement == m.replacements[1]
                    original == PySlice(corr, m.offset, m.offset + m.errorLength)
                IN  IF original = replacement
                    THEN FixLoopForward(ms, i + 1, corr, chgs)
                    ELSE FixLoopForward(ms, i + 1,
                                 PySlice(corr, 0, m.offset) \o replacement
                                   \o PySlice(corr, m.offset + m.errorLength, Len(corr)),
                                 Append(chgs,
                                        Change(ClassifyMatch(m), original, replacement)))

FixGrammarForward(t, ms) == FixLoopForward(ms, 1, t, <<>>)

\* _fix_grammar(text), given the matches self._tool.check(text) returned.
FixGrammar(t, ms) ==
  LET r == FixLoop(ms, Len(ms), t, <<>>)
  IN  [corrected |-> r.corrected, changes |-> Reverse(r.changes)]

\* TextCorrector.correct(text, variant), given the tool's matches.
Correct(t, v, ms) ==
  LET g == FixGrammar(t, ms)
      c == ConvertVariant(g.corrected, v)
  IN  [corrected |-> c.text, changes |-> g.changes \o c.changes]

\* ------------------------------------------------------------------------
\* CorrectionRequest
\* ------------------------------------------------------------------------

\* The validation with "if not v" for "if not v.strip()".
RequestValidNonEmptyOnly(r) ==
  /\ r.text # <<>>
  /\ r.variant \in {"uk", "us"}

\* variant: Literal["uk", "us"] and text_must_not_be_empty.
RequestValid(r) ==
  /\ StrStrip(r.text) # <<>>
  /\ r.variant \in {"uk", "us"}

\* ------------------------------------------------------------------------
\* State
\* ------------------------------------------------------------------------

VARIABLES
  \* one use of _convert_variant, and a second one on its own output
  text, variant, cpc, calls, first_text,
  url_spans, tokens, result_parts, changes, corrected,
  \* one use of _match_case
  mc_original, mc_replacement, mc_result, mc_pc,
  \* one use of _fix_grammar
  g_text, g_matches, g_corrected, g_changes, g_pc,
  \* the module-level tables, built from the items of a dict literal
  t_items, t_reverse, t_words, t_pc,
  \* the server: per request thread its position, request, corrector in hand
  \* and response; the global _corrector and the TextCorrector() calls so far
  pc, req, held, resp, ran, corrector, constructed

convVars ==
  <<text, variant, cpc, calls, first_text,
    url_spans, tokens, result_parts, changes, corrected>>

caseVars == <<mc_original, mc_replacement, mc_result, mc_pc>>

gramVars == <<g_text, g_matches, g_corrected, g_changes, g_pc>>

tableVars == <<t_items, t_reverse, t_words, t_pc>>

serverVars == <<pc, req, held, resp, ran, corrector, constructed>>

vars == <<convVars, caseVars, gramVars, tableVars, serverVars>>

\* The parts of the state a specification does not use stay as they are here.
ConvIdle ==
  /\ text = <<>> /\ variant = "uk" /\ cpc = "off" /\ calls = 0
  /\ first_text = <<>> /\ url_spans = <<>> /\ tokens = <<>>
  /\ result_parts = <<>> /\ changes = <<>> /\ corrected = <<>>

CaseIdle ==
  /\ mc_original = <<>> /\ mc_replacement = <<>> /\ mc_result = <<>>
  /\ mc_pc = "off"

GramIdle ==
  /\ g_text = <<>> /\ g_matches = <<>> /\ g_corrected = <<>>
  /\ g_changes = <<>> /\ g_pc = "off"

TableIdle ==
  /\ t_items = <<>> /\ t_reverse = <<>> /\ t_words = <<>> /\ t_pc = "off"

ServerIdle ==
  /\ pc = <<>> /\ req = <<>> /\ held = <<>> /\ resp = <<>> /\ ran = <<>>
  /\ corrector = 0 /\ constructed = 0

\* ------------------------------------------------------------------------
\* Inputs of the conversion
\* ------------------------------------------------------------------------

MaxPieces == 4

MaxLen == 3

MaxCasePos == 2

\* Building blocks of running text: two US words, a separator, a hyphen and
\* the openings and the tail of what _URL_RE matches.
Pieces ==
  { <<"c","o","l","o","r">>,
    <<"C","e","n","t","e","r">>,
    <<" ">>,
    <<"-">>,
    <<"h","t","t","p",":","/","/">>,
    <<"h","t","t","p","s",":","/","/">>,
    <<"w","w","w",".">>,
    <<"@","b",".","c","o">> }

RECURSIVE PieceTexts(_)
PieceTexts(n) ==
  IF n = 0 THEN { <<>> }
  ELSE LET prev == PieceTexts(n - 1)
       IN  prev \cup { t \o p : t \in prev, p \in Pieces }

\* Every string of up to MaxLen characters over letters of both cases, a
\* digit, a space, a full stop and a non-ASCII letter.
TextAlphabet == {"a", "B", "1", " ", ".", "U+00E9"}

RECURSIVE CharTexts(_)
CharTexts(n) ==
  IF n = 0 THEN { <<>> }
  ELSE LET prev == CharTexts(n - 1)
       IN  prev \cup { Append(t, c) : t \in prev, c \in TextAlphabet }

\* A word of the table with the characters at the positions ups uppercased.
Cased(w, ups) == [i \in 1..Len(w) |-> IF i \in ups THEN CharUpper(w[i]) ELSE w[i]]

\* Every word of the table, in either spelling, all uppercase or with any
\* subset of its first MaxCasePos characters uppercase.
CasedWords ==
  { Cased(w, ups) : w \in US_WORDS \cup UK_WORDS, ups \in SUBSET (1..MaxCasePos) }
    \cup { StrUpper(w) : w \in US_WORDS \cup UK_WORDS }

Texts == PieceTexts(MaxPieces) \cup CharTexts(MaxLen) \cup CasedWords

Variants == {"uk", "us"}

OtherVariant(v) == IF v = "uk" THEN "us" ELSE "uk"

\* ------------------------------------------------------------------------
\* The conversion as a state machine
\* ------------------------------------------------------------------------

Init ==
  /\ text \in Texts
  /\ variant \in Variants
  /\ cpc = "ready"
  /\ calls = 0
  /\ first_text = text
  /\ url_spans = <<>>
  /\ tokens = <<>>
  /\ result_parts = <<>>
  /\ changes = <<>>
  /\ corrected = <<>>
  /\ CaseIdle /\ GramIdle /\ TableIdle /\ ServerIdle

\* variant_fixed, spelling_changes = self._convert_variant(text, variant)
CallConvert ==
  /\ cpc = "ready"
  /\ LET r == ConvertVariant(text, variant)
     IN  /\ url_spans' = r.url_spans
         /\ tokens' = r.tokens
         /\ result_parts' = r.result_parts
         /\ changes' = r.changes
         /\ corrected' = r.text
  /\ cpc' = "returned"
  /\ calls' = calls + 1
  /\ UNCHANGED <<text, variant, first_text>>
  /\ UNCHANGED <<caseVars, gramVars, tableVars, serverVars>>

\* The output of the first conversion is converted back to the other variant.
CallBack ==
  /\ cpc = "returned"
  /\ calls = 1
  /\ text' = corrected
  /\ variant' = OtherVariant(variant)
  /\ cpc' = "ready"
  /\ UNCHANGED <<calls, first_text, url_spans, tokens, result_parts,
                 changes, corrected>>
  /\ UNCHANGED <<caseVars, gramVars, tableVars, serverVars>>

Next == CallConvert \/ CallBack

Spec == Init /\ [][Next]_vars

\* ------------------------------------------------------------------------
\* _match_case on its own
\* ------------------------------------------------------------------------

MaxTokLen == 2

CaseAlphabet == {"a", "A", "z", "Z"}

RECURSIVE CaseTokens(_)
CaseTokens(n) ==
  IF n = 0 THEN { <<>> }
  ELSE LET prev == CaseTokens(n - 1)
       IN  prev \cup { Append(t, c) : t \in prev, c \in CaseAlphabet }

Word_color == <<"c","o","l","o","r">>

\* Non-empty alphabetic tokens: every casing of short tokens, and the word
\* "color" in lowercase, capitalised and uppercase.
CaseOriginals ==
  (CaseTokens(MaxTokLen) \ { <<>> })
    \cup { Word_color, Cased(Word_color, {1}), StrUpper(Word_color) }

\* The replacements are the words stored in the tables, all lowercase.
CaseReplacements == US_WORDS \cup UK_WORDS

InitCase ==
  /\ mc_original \in CaseOriginals
  /\ mc_replacement \in CaseReplacements
  /\ mc_result = <<>>
  /\ mc_pc = "ready"
  /\ ConvIdle /\ GramIdle /\ TableIdle /\ ServerIdle

\* replacement = self._match_case(token, replacement)
CallMatchCase ==
  /\ mc_pc = "ready"
  /\ mc_result' = MatchCase(mc_original, mc_replacement)
  /\ mc_pc' = "returned"
  /\ UNCHANGED <<mc_original, mc_replacement>>
  /\ UNCHANGED <<convVars, gramVars, tableVars, serverVars>>

NextCase == CallMatchCase

SpecCase == InitCase /\ [][NextCase]_vars

\* ------------------------------------------------------------------------
\* _fix_grammar on its own
\* ------------------------------------------------------------------------

MaxGLen == 2

MaxMatches == 2

RECURSIVE GrammarTexts(_)
GrammarTexts(n) ==
  IF n = 0 THEN { <<>> }
  ELSE LET prev == GrammarTexts(n - 1)
       IN  prev \cup { Append(t, c) : t \in prev, c \in {"a", "b"} }

\* What a match can carry besides its span: no replacement at all, one
\* replacement, two of which the first counts, an empty replacement; with
\* rule metadata of each class.
MatchKinds ==
  { [replacements |-> <<>>, ruleId |-> {}, category |-> {}],
    [replacements |-> << <<"b">> >>, ruleId |-> {"COMMA"}, category |-> {"PUNCT"}],
    [replacements |-> << <<"a">>, <<"b">> >>, ruleId |-> {"SPELL"}, category |-> {}],
    [replacements |-> << <<>> >>, ruleId |-> {}, category |-> {"SPELL"}] }

MatchesAt(t, from) ==
  { [offset |-> o, errorLength |-> l, replacements |-> k.replacements,
     ruleId |-> k.ruleId, category |-> k.category] :
      o \in from..Len(t), l \in 0..Len(t), k \in MatchKinds }

\* Lists of at most n matches within t, by ascending offset, each starting
\* at or after the end of the one before it.
RECURSIVE MatchLists(_, _, _)
MatchLists(t, from, n) ==
  IF n = 0 THEN { <<>> }
  ELSE { <<>> } \cup
       UNION { { <<m>> \o rest : rest \in MatchLists(t, m.offset + m.errorLength, n - 1) } :
                 m \in { x \in MatchesAt(t, from) : x.offset + x.errorLength <= Len(t) } }

\* self._tool.check(text): what the LanguageTool server may answer.
ToolCheck(t) == MatchLists(t, 0, MaxMatches)

InitGrammar ==
  /\ g_text \in GrammarTexts(MaxGLen)
  /\ g_matches \in ToolCheck(g_text)
  /\ g_corrected = <<>>
  /\ g_changes = <<>>
  /\ g_pc = "ready"
  /\ ConvIdle /\ CaseIdle /\ TableIdle /\ ServerIdle

\* grammar_fixed, grammar_changes = self._fix_grammar(text)
CallFixGrammar ==
  /\ g_pc = "ready"
  /\ LET r == FixGrammar(g_text, g_matches)
     IN  /\ g_corrected' = r.corrected
         /\ g_changes' = r.changes
  /\ g_pc' = "returned"
  /\ UNCHANGED <<g_text, g_matches>>
  /\ UNCHANGED <<convVars, caseVars, tableVars, serverVars>>

NextGrammar == CallFixGrammar

SpecGrammar == InitGrammar /\ [][NextGrammar]_vars

\* ------------------------------------------------------------------------
\* Building the module-level tables from a dict literal
\* ------------------------------------------------------------------------

MaxItems == 2

TableKeys == { <<"g","r","a","y">>, <<"g","r","e","y">>, <<"t","i","r","e">> }

TableValues == { <<"g","r","e","y">>, <<"t","y","r","e">>, <<"t","i","r","e">> }

\* The items of a dict literal of at most n entries with distinct keys.
RECURSIVE ItemLists(_)
ItemLists(n) ==
  IF n = 0 THEN { <<>> }
  ELSE LET prev == ItemLists(n - 1)
       IN  prev \cup
           { Append(l, <<k, v>>) :
               l \in prev,
               k \in TableKeys,
               v \in TableValues }

DistinctKeys(items) ==
  \A i, j \in DOMAIN items : items[i][1] = items[j][1] => i = j

InitTable ==
  /\ t_items \in { l \in ItemLists(MaxItems) : DistinctKeys(l) }
  /\ t_reverse = <<>>
  /\ t_words = <<>>
  /\ t_pc = "importing"
  /\ ConvIdle /\ CaseIdle /\ GramIdle /\ ServerIdle

\* _UK_TO_US = {v: k for k, v in _US_TO_UK.items()} and the two word sets;
\* the module is then imported and the tables are in service.
BuildTables ==
  /\ t_pc = "importing"
  /\ t_reverse' = DictOf(ReversedItems(t_items))
  /\ t_words' = [us |-> DOMAIN DictOf(t_items),
                 uk |-> DOMAIN DictOf(ReversedItems(t_items))]
  /\ t_pc' = "in_service"
  /\ UNCHANGED t_items
  /\ UNCHANGED <<convVars, caseVars, gramVars, serverVars>>

NextTable == BuildTables

SpecTable == InitTable /\ [][NextTable]_vars

\* ------------------------------------------------------------------------
\* POST /correct: validation, get_corrector, correct
\* ------------------------------------------------------------------------

NumThreads == 2

MaxReqLen == 2

RECURSIVE RequestTexts(_)
RequestTexts(n) ==
  IF n = 0 THEN { <<>> }
  ELSE LET prev == RequestTexts(n - 1)
       IN  prev \cup { Append(t, c) : t \in prev, c \in {"a", " ", "U+00A0"} }

\* Request bodies with a str text and a str variant.
HttpRequests ==
  [text : RequestTexts(MaxReqLen), variant : {"uk", "us", "UK", "fr"}]

\* The requests of the concurrent clients: one valid, one with an empty text.
ConcurrentRequests ==
  { [text |-> <<"a">>, variant |-> "uk"], [text |-> <<>>, variant |-> "us"] }

NoResponse == [status |-> 0]

\* One request, handled alone.
InitHttp ==
  /\ pc = [t \in {1} |-> "validate"]
  /\ req \in [{1} -> HttpRequests]
  /\ held = [t \in {1} |-> 0]
  /\ resp = [t \in {1} |-> NoResponse]
  /\ ran = [t \in {1} |-> {}]
  /\ corrector = 0
  /\ constructed = 0
  /\ ConvIdle /\ CaseIdle /\ GramIdle /\ TableIdle

\* NumThreads requests, each handled in a thread of the server's pool.
InitServer ==
  /\ pc = [t \in 1..NumThreads |-> "validate"]
  /\ req \in [1..NumThreads -> ConcurrentRequests]
  /\ held = [t \in 1..NumThreads |-> 0]
  /\ resp = [t \in 1..NumThreads |-> NoResponse]
  /\ ran = [t \in 1..NumThreads |-> {}]
  /\ corrector = 0
  /\ constructed = 0
  /\ ConvIdle /\ CaseIdle /\ GramIdle /\ TableIdle

\* The request body fails CorrectionRequest: the framework answers 422 and
\* correct_text is not called.
Reject(t) ==
  /\ t \in DOMAIN pc
  /\ pc[t] = "validate"
  /\ ~RequestValid(req[t])
  /\ resp' = [resp EXCEPT ![t] = [status |-> 422]]
  /\ pc' = [pc EXCEPT ![t] = "responded"]
  /\ UNCHANGED <<req, held, ran, corrector, constructed>>
  /\ UNCHANGED <<convVars, caseVars, gramVars, tableVars>>

\* The request body parses: correct_text(req) is called.
Accept(t) ==
  /\ t \in DOMAIN pc
  /\ pc[t] = "validate"
  /\ RequestValid(req[t])
  /\ pc' = [pc EXCEPT ![t] = "gc_check"]
  /\ UNCHANGED <<req, held, resp, ran, corrector, constructed>>
  /\ UNCHANGED <<convVars, caseVars, gramVars, tableVars>>

\* if _corrector is None:
GcCheck(t) ==
  /\ t \in DOMAIN pc
  /\ pc[t] = "gc_check"
  /\ pc' = [pc EXCEPT ![t] = IF corrector = 0 THEN "gc_construct" ELSE "gc_return"]
  /\ UNCHANGED <<req, held, resp, ran, corrector, constructed>>
  /\ UNCHANGED <<convVars, caseVars, gramVars, tableVars>>

\* TextCorrector(): a new instance, numbered by the order of construction.
GcConstruct(t) ==
  /\ t \in DOMAIN pc
  /\ pc[t] = "gc_construct"
  /\ constructed' = constructed + 1
  /\ held' = [held EXCEPT ![t] = constructed + 1]
  /\ pc' = [pc EXCEPT ![t] = "gc_store"]
  /\ UNCHANGED <<req, resp, ran, corrector>>
  /\ UNCHANGED <<convVars, caseVars, gramVars, tableVars>>

\* _corrector = <the new instance>
GcStore(t) ==
  /\ t \in DOMAIN pc
  /\ pc[t] = "gc_store"
  /\ corrector' = held[t]
  /\ pc' = [pc EXCEPT ![t] = "gc_return"]
  /\ UNCHANGED <<req, held, resp, ran, constructed>>
  /\ UNCHANGED <<convVars, caseVars, gramVars, tableVars>>

\* return _corrector
GcReturn(t) ==
  /\ t \in DOMAIN pc
  /\ pc[t] = "gc_return"
  /\ held' = [held EXCEPT ![t] = corrector]
  /\ pc' = [pc EXCEPT ![t] = "correct"]
  /\ UNCHANGED <<req, resp, ran, corrector, constructed>>
  /\ UNCHANGED <<convVars, caseVars, gramVars, tableVars>>

\* corrected, changes = corrector.correct(req.text, req.variant) and the
\* CorrectionResponse built from them.
CorrectAndRespond(t) ==
  /\ t \in DOMAIN pc
  /\ pc[t] = "correct"
  /\ \E ms \in ToolCheck(req[t].text) :
       LET r == Correct(req[t].text, req[t].variant, ms)
       IN  resp' = [resp EXCEPT ![t] =
                      [status |-> 200, corrected |-> r.corrected,
                       variant |-> req[t].variant, changes |-> r.changes]]
  /\ ran' = [ran EXCEPT ![t] = {"grammar", "variant"}]
  /\ pc' = [pc EXCEPT ![t] = "responded"]
  /\ UNCHANGED <<req, held, corrector, constructed>>
  /\ UNCHANGED <<convVars, caseVars, gramVars, tableVars>>

\* A step of one of the threads that exist (those of DOMAIN pc).
NextServer ==
  \E t \in 1..NumThreads :
    \/ Reject(t)
    \/ Accept(t)
    \/ GcCheck(t)
    \/ GcConstruct(t)
    \/ GcStore(t)
    \/ GcReturn(t)
    \/ CorrectAndRespond(t)

SpecHttp == InitHttp /\ [][NextServer]_vars

SpecServer == InitServer /\ [][NextServer]_vars

\* ------------------------------------------------------------------------
\* Properties of the conversion
\* ------------------------------------------------------------------------

TokenEnd(tok) == tok.start + Len(tok.token)

\* A WORD token: a non-empty run of ASCII letters.
IsWord(s) == Len(s) > 0 /\ \A i \in 1..Len(s) : s[i] \in AsciiLetters

\* The token's start offset lies inside a match of _URL_RE.
StartsInsideMatch(tok) ==
  \E k \in DOMAIN url_spans :
    url_spans[k][1] <= tok.start /\ tok.start < url_spans[k][2]

\* The token shares at least one character with a match of _URL_RE.
OverlapsMatch(tok) ==
  \E k \in DOMAIN url_spans :
    url_spans[k][1] < TokenEnd(tok) /\ tok.start < url_spans[k][2]

\* The table the call in progress converts from, and the words it converts to.
SourceTable == IF variant = "uk" THEN US_TO_UK ELSE UK_TO_US

TargetWords == IF variant = "uk" THEN UK_WORDS ELSE US_WORDS

\* A word that the target variant spells differently.
Convertible(tok) ==
  /\ IsWord(tok.token)
  /\ StrLower(tok.token) \in DOMAIN SourceTable
  /\ SourceTable[StrLower(tok.token)] # StrLower(tok.token)

\* Growth of the output over the input up to input offset s: the summed
\* length differences of the tokens that end at or before s.
RECURSIVE ShiftBefore(_, _)
ShiftBefore(s, i) ==
  IF i > Len(tokens) \/ TokenEnd(tokens[i]) > s THEN 0
  ELSE Len(result_parts[i]) - Len(tokens[i].token) + ShiftBefore(s, i + 1)

\* C1: every match of _URL_RE appears verbatim in the output (at its offset
\* shifted by the edits before it, no token that touches it being altered),
\* every recorded change belongs to a token that starts outside all matches,
\* and a convertible word that starts outside all matches is converted to the
\* target spelling.
UrlSpansPreserved ==
  cpc = "returned" =>
    /\ Len(result_parts) = Len(tokens)
    /\ \A k \in DOMAIN url_spans :
         LET s == url_spans[k][1]
             e == url_spans[k][2]
             d == ShiftBefore(s, 1)
         IN  SubSeq(corrected, s + d + 1, e + d) = SubSeq(text, s + 1, e)
    /\ \A i \in DOMAIN tokens :
         /\ OverlapsMatch(tokens[i]) => result_parts[i] = tokens[i].token
         /\ (Convertible(tokens[i]) /\ ~StartsInsideMatch(tokens[i])) =>
              /\ result_parts[i] # tokens[i].token
              /\ StrLower(result_parts[i]) = SourceTable[StrLower(tokens[i].token)]
    /\ Len(changes) =
         Cardinality({ i \in DOMAIN tokens :
                         /\ ~StartsInsideMatch(tokens[i])
                         /\ result_parts[i] # tokens[i].token })

\* A table word inside a URL or email is kept while the same kind of word
\* outside it is converted.
UrlSpansPreservedWitness ==
  /\ cpc = "returned"
  /\ \E i, j \in DOMAIN tokens :
       /\ StartsInsideMatch(tokens[i])
       /\ Convertible(tokens[i])
       /\ result_parts[i] = tokens[i].token
       /\ ~StartsInsideMatch(tokens[j])
       /\ Convertible(tokens[j])
       /\ result_parts[j] # tokens[j].token

\* The changes a left-to-right reading of the emitted parts calls for: one
\* spelling change per token whose emitted text differs from the token.
RECURSIVE EditsFrom(_)
EditsFrom(i) ==
  IF i > Len(tokens) THEN <<>>
  ELSE (IF result_parts[i] # tokens[i].token
        THEN <<[type |-> "spelling", original |-> tokens[i].token,
                replacement |-> result_parts[i]]>>
        ELSE <<>>) \o EditsFrom(i + 1)

\* C3: the change list is, in document order, exactly one "spelling" change
\* (original = input token, replacement = emitted text, the two different)
\* per token emitted with a different text, and none for any other token.
ChangesInDocumentOrder ==
  cpc = "returned" =>
    /\ Len(result_parts) = Len(tokens)
    /\ corrected = Join(result_parts)
    /\ changes = EditsFrom(1)
    /\ \A k \in DOMAIN changes : changes[k].original # changes[k].replacement

\* Two different words are converted, with an unchanged token between them.
ChangesInDocumentOrderWitness ==
  /\ cpc = "returned"
  /\ Len(changes) >= 2
  /\ changes[1].original # changes[2].original
  /\ \E i \in DOMAIN tokens : result_parts[i] = tokens[i].token

\* C4: a word token that is already a spelling of the target variant, in any
\* casing, is emitted unchanged and no change is recorded for it.
TargetSpellingUntouched ==
  cpc = "returned" =>
    \A i \in DOMAIN tokens :
      (IsWord(tokens[i].token) /\ StrLower(tokens[i].token) \in TargetWords) =>
        /\ result_parts[i] = tokens[i].token
        /\ \A k \in DOMAIN changes : changes[k].original # tokens[i].token

\* The table of the first of the two conversions (the second one's target is
\* the variant the first one converted from).
FirstTable == IF variant = "us" THEN US_TO_UK ELSE UK_TO_US

\* The first text is one word that the first conversion's table maps to a
\* different spelling.
RoundTripWord ==
  /\ IsWord(first_text)
  /\ StrLower(first_text) \in DOMAIN FirstTable
  /\ FirstTable[StrLower(first_text)] # StrLower(first_text)

\* All lowercase, all uppercase, or an uppercase letter followed by lowercase.
RegularCasing(w) ==
  \/ \A i \in 1..Len(w) : w[i] \in AsciiLower
  \/ \A i \in 1..Len(w) : w[i] \in AsciiUpper
  \/ /\ w[1] \in AsciiUpper
     /\ \A i \in 2..Len(w) : w[i] \in AsciiLower

\* C5 as stated: converting such a word and converting the result back gives
\* the original token, whatever its casing.
RoundTripAnyCasing ==
  (cpc = "returned" /\ calls = 2 /\ RoundTripWord) => corrected = first_text

\* C5 amended: the round trip gives the original token when its casing is all
\* lowercase, all uppercase or capitalised.
RoundTripRegularCasing ==
  (cpc = "returned" /\ calls = 2 /\ RoundTripWord /\ RegularCasing(first_text))
    => corrected = first_text

\* An all-uppercase word went to the other spelling and came back.
RoundTripWitness ==
  /\ cpc = "returned"
  /\ calls = 2
  /\ RoundTripWord
  /\ Len(first_text) > 1
  /\ \A i \in 1..Len(first_text) : first_text[i] \in AsciiUpper
  /\ text # first_text
  /\ corrected = first_text

\* The tokens tile the text: non-empty, each starting where the previous one
\* ends, the first at 0, the last ending at the end, their texts joining to
\* the input.
TokensTileText ==
  cpc = "returned" =>
    /\ Join([i \in DOMAIN tokens |-> tokens[i].token]) = text
    /\ \A i \in DOMAIN tokens :
         /\ Len(tokens[i].token) > 0
         /\ tokens[i].start = IF i = 1 THEN 0 ELSE TokenEnd(tokens[i - 1])
    /\ tokens # <<>> => TokenEnd(tokens[Len(tokens)]) = Len(text)
    /\ tokens = <<>> => text = <<>>

\* C6: the tokens tile the text; a text with no convertible word outside the
\* protected spans comes back unchanged with no changes; so does the empty
\* text.
LosslessAndIdentityOnNoop ==
  /\ TokensTileText
  /\ cpc = "returned" =>
       /\ (\A i \in DOMAIN tokens :
             ~(Convertible(tokens[i]) /\ ~StartsInsideMatch(tokens[i])))
            => (corrected = text /\ changes = <<>>)
       /\ text = <<>> => (corrected = <<>> /\ changes = <<>>)

\* ------------------------------------------------------------------------
\* Properties of _match_case
\* ------------------------------------------------------------------------

AllAsciiUpper(w) == \A i \in 1..Len(w) : w[i] \in AsciiUpper

\* C2: an all-uppercase original gives the replacement all uppercase;
\* otherwise an original with an uppercase first character gives the
\* replacement with only its first character uppercased; otherwise the
\* replacement is returned as it is.  COLOR, Color and color, with the
\* replacement the US table stores for "color", give COLOUR, Colour and colour.
MatchCaseRule ==
  mc_pc = "returned" =>
    /\ Len(mc_result) = Len(mc_replacement)
    /\ AllAsciiUpper(mc_original) =>
         \A i \in 1..Len(mc_result) :
           mc_result[i] \in AsciiUpper /\ CharLower(mc_result[i]) = mc_replacement[i]
    /\ (~AllAsciiUpper(mc_original) /\ mc_original[1] \in AsciiUpper) =>
         /\ mc_result[1] \in AsciiUpper
         /\ CharLower(mc_result[1]) = mc_replacement[1]
         /\ \A i \in 2..Len(mc_result) : mc_result[i] = mc_replacement[i]
    /\ mc_original[1] \in AsciiLower => mc_result = mc_replacement
    /\ (StrLower(mc_original) = Word_color
          /\ mc_replacement = US_TO_UK[Word_color]) =>
         mc_result =
           IF mc_original = <<"C","O","L","O","R">> THEN <<"C","O","L","O","U","R">>
           ELSE IF mc_original = <<"C","o","l","o","r">> THEN <<"C","o","l","o","u","r">>
           ELSE <<"c","o","l","o","u","r">>

\* "Color" has been projected onto "colour".
MatchCaseRuleWitness ==
  /\ mc_pc = "returned"
  /\ mc_original = <<"C","o","l","o","r">>
  /\ mc_replacement = <<"c","o","l","o","u","r">>
  /\ mc_result = <<"C","o","l","o","u","r">>

\* ------------------------------------------------------------------------
\* Properties of _fix_grammar
\* ------------------------------------------------------------------------

\* A match that calls for an edit of the input: it has a replacement, and
\* the first one differs from the text of the input at its span.
Effective(m) ==
  /\ m.replacements # <<>>
  /\ m.replacements[1] # SubSeq(g_text, m.offset + 1, m.offset + m.errorLength)

\* The input with the span of every match from i on replaced by the match's
\* first replacement (kept when it has none), reading from input offset from.
RECURSIVE ReplacedFrom(_, _)
ReplacedFrom(i, from) ==
  IF i > Len(g_matches) THEN SubSeq(g_text, from + 1, Len(g_text))
  ELSE LET m == g_matches[i]
       IN  SubSeq(g_text, from + 1, m.offset)
             \o (IF m.replacements = <<>>
                 THEN SubSeq(g_text, m.offset + 1, m.offset + m.errorLength)
                 ELSE m.replacements[1])
             \o ReplacedFrom(i + 1, m.offset + m.errorLength)

\* (original, replacement) of the effective matches from i on, in order.
RECURSIVE EffectiveFrom(_)
EffectiveFrom(i) ==
  IF i > Len(g_matches) THEN <<>>
  ELSE (IF Effective(g_matches[i])
        THEN << <<SubSeq(g_text, g_matches[i].offset + 1,
                         g_matches[i].offset + g_matches[i].errorLength),
                  g_matches[i].replacements[1]>> >>
        ELSE <<>>) \o EffectiveFrom(i + 1)

\* C9: for matches by ascending offset that do not overlap, the result is
\* the input with every span replaced by its match's first replacement; a
\* match without replacements or whose first replacement equals the spanned
\* text records no change; the changes are in ascending offset order, each
\* with the input's text at the span as its original.
GrammarEditsApplied ==
  g_pc = "returned" =>
    /\ g_corrected = ReplacedFrom(1, 0)
    /\ [k \in DOMAIN g_changes |->
          <<g_changes[k].original, g_changes[k].replacement>>] = EffectiveFrom(1)

\* Two edits were applied, the first of which changed the length of the text
\* before the second.
GrammarEditsAppliedWitness ==
  /\ g_pc = "returned"
  /\ Len(g_matches) = 2
  /\ Effective(g_matches[1]) /\ Effective(g_matches[2])
  /\ Len(g_matches[1].replacements[1]) # g_matches[1].errorLength
  /\ g_matches[2].errorLength > 0
  /\ Len(g_changes) = 2

\* ------------------------------------------------------------------------
\* Properties of the table construction
\* ------------------------------------------------------------------------

InvalidRequestRejected ==
  \A t \in DOMAIN pc :
    ((\A i \in 1..Len(req[t].text) : req[t].text[i] \in Whitespace)
       \/ req[t].variant \notin {"uk", "us"}) =>
      /\ pc[t] \in {"validate", "responded"}
      /\ ran[t] = {}
      /\ held[t] = 0
      /\ pc[t] = "responded" => resp[t] = [status |-> 422]

\* A request whose text is a space and a no-break space, with a good variant,
\* was answered 422.
InvalidRequestRejectedWitness ==
  \E t \in DOMAIN pc :
    /\ pc[t] = "responded"
    /\ resp[t].status = 422
    /\ req[t].text = <<" ", "U+00A0">>
    /\ req[t].variant = "uk"

\* C10: TextCorrector is constructed at most once, and all callers of
\* get_corrector are handed the same instance.
SingleCorrector ==
  /\ constructed <= 1
  /\ \A t, u \in DOMAIN pc :
       (pc[t] \in {"correct", "responded"} /\ pc[u] \in {"correct", "responded"}
          /\ held[t] # 0 /\ held[u] # 0) => held[t] = held[u]

====
